---- MODULE Spec2Model ----
(***************************************************************************)
(* Model of backend/server.py: the search-businesses pipeline (geocoding,  *)
(* category mapping, nearby search with pagination and de-duplication,     *)
(* Companies House enrichment, record building, caching) and the registry  *)
(* matcher.  Text is modelled as sequences of one-character strings so     *)
(* that lower(), title(), replace(), split() and the substring test are    *)
(* computed, not assumed.                                                  *)
(***************************************************************************)
EXTENDS Integers, Sequences, FiniteSets, TLC

(***************************************************************************)
(* Python text primitives used by the source.                              *)
(***************************************************************************)
UpperCs == <<"A","B","C","D","E","F","G","H","I","J","K","L","M",
             "N","O","P","Q","R","S","T","U","V","W","X","Y","Z">>

LowerCs == <<"a","b","c","d","e","f","g","h","i","j","k","l","m",
             "n","o","p","q","r","s","t","u","v","w","x","y","z">>

DigitCs == <<"0","1","2","3","4","5","6","7","8","9">>

Range(s) == { s[i] : i \in DOMAIN s }

IsUpper(c) == c \in Range(UpperCs)

IsLower(c) == c \in Range(LowerCs)

IsAlnumChar(c) == IsUpper(c) \/ IsLower(c) \/ c \in Range(DigitCs)

IsSpaceChar(c) == c = " "

\* \w of the regular expression: letters, digits and the underscore
IsWordChar(c) == IsAlnumChar(c) \/ c = "_"

LowerChar(c) ==
  IF IsUpper(c) THEN LowerCs[CHOOSE i \in DOMAIN UpperCs : UpperCs[i] = c] ELSE c

UpperChar(c) ==
  IF IsLower(c) THEN UpperCs[CHOOSE i \in DOMAIN LowerCs : LowerCs[i] = c] ELSE c

\* str.lower()
lower(s) == [i \in DOMAIN s |-> LowerChar(s[i])]

\* str.upper()
upper(s) == [i \in DOMAIN s |-> UpperChar(s[i])]

\* str.title(): a letter is upper-cased when it follows a non-letter (or
\* starts the text) and lower-cased when it follows a letter
title(s) ==
  [i \in DOMAIN s |->
     IF i > 1 /\ (IsUpper(s[i-1]) \/ IsLower(s[i-1]))
     THEN LowerChar(s[i]) ELSE UpperChar(s[i])]

\* str.isalnum(): non-empty and every character a letter or a digit
isalnum(s) == Len(s) > 0 /\ \A i \in DOMAIN s : IsAlnumChar(s[i])

RECURSIVE replace(_, _, _)
\* str.replace(old, new) for a non-empty old: left to right, non-overlapping
replace(s, old, new) ==
  IF Len(s) < Len(old) THEN s
  ELSE IF SubSeq(s, 1, Len(old)) = old
       THEN new \o replace(SubSeq(s, Len(old) + 1, Len(s)), old, new)
       ELSE <<Head(s)>> \o replace(Tail(s), old, new)

RECURSIVE lstrip(_)
lstrip(s) == IF s # <<>> /\ IsSpaceChar(Head(s)) THEN lstrip(Tail(s)) ELSE s

RECURSIVE rstrip(_)
rstrip(s) ==
  IF s # <<>> /\ IsSpaceChar(s[Len(s)]) THEN rstrip(SubSeq(s, 1, Len(s) - 1)) ELSE s

\* str.strip()
strip(s) == rstrip(lstrip(s))

RECURSIVE SplitFrom(_, _)
\* the words of s that follow the word being read, cur
SplitFrom(s, cur) ==
  IF s = <<>> THEN (IF cur = <<>> THEN <<>> ELSE <<cur>>)
  ELSE IF IsSpaceChar(Head(s))
       THEN (IF cur = <<>> THEN <<>> ELSE <<cur>>) \o SplitFrom(Tail(s), <<>>)
       ELSE SplitFrom(Tail(s), Append(cur, Head(s)))

\* str.split(): the maximal runs of non-space characters
split(s) == SplitFrom(s, <<>>)

\* re.sub(r'[^\w\s]', '', s)
re_sub_punct(s) == SelectSeq(s, LAMBDA c : IsWordChar(c) \/ IsSpaceChar(c))

\* needle in hay
contains(hay, needle) ==
  \E i \in 0..(Len(hay) - Len(needle)) : SubSeq(hay, i + 1, i + Len(needle)) = needle

(***************************************************************************)
(* Category Mapper: map_business_type_to_google_type and the               *)
(* industry_mapping of process_place_details.  Each row of type_mapping is *)
(* <<category, provider type, keyword>>; each row of industry_mapping is   *)
(* <<category, display label>>.                                            *)
(***************************************************************************)
type_mapping ==
  << << <<"c","a","r","p","e","n","t","e","r">>,
        "general_contractor",
        <<"c","a","r","p","e","n","t","e","r"," ","j","o","i","n","e","r">> >>,
     << <<"b","u","i","l","d","e","r">>,
        "general_contractor",
        <<"b","u","i","l","d","e","r"," ","c","o","n","s","t","r","u","c","t","i","o","n">> >>,
     << <<"e","l","e","c","t","r","i","c","i","a","n">>,
        "electrician",
        <<"e","l","e","c","t","r","i","c","i","a","n"," ","e","l","e","c","t","r","i","c","a","l"," ","c","o","n","t","r","a","c","t","o","r">> >>,
     << <<"p","l","u","m","b","e","r">>,
        "plumber",
        <<"p","l","u","m","b","e","r"," ","p","l","u","m","b","i","n","g"," ","s","e","r","v","i","c","e","s">> >>,
     << <<"r","o","o","f","e","r">>,
        "roofing_contractor",
        <<"r","o","o","f","e","r"," ","r","o","o","f","i","n","g"," ","s","e","r","v","i","c","e","s">> >>,
     << <<"p","a","i","n","t","e","r">>,
        "painter",
        <<"p","a","i","n","t","e","r"," ","d","e","c","o","r","a","t","o","r">> >>,
     << <<"l","a","n","d","s","c","a","p","e","r">>,
        "general_contractor",
        <<"l","a","n","d","s","c","a","p","e","r"," ","g","a","r","d","e","n","i","n","g">> >>,
     << <<"p","l","a","s","t","e","r","e","r">>,
        "general_contractor",
        <<"p","l","a","s","t","e","r","e","r"," ","p","l","a","s","t","e","r","i","n","g"," ","s","e","r","v","i","c","e","s">> >>,
     << <<"g","r","o","u","n","d","w","o","r","k","e","r">>,
        "general_contractor",
        <<"g","r","o","u","n","d","w","o","r","k"," ","e","x","c","a","v","a","t","i","o","n">> >>,
     << <<"b","r","i","c","k","l","a","y","e","r">>,
        "general_contractor",
        <<"b","r","i","c","k","l","a","y","e","r"," ","m","a","s","o","n","r","y">> >>,
     << <<"h","e","a","t","i","n","g","_","e","n","g","i","n","e","e","r">>,
        "plumber",
        <<"h","e","a","t","i","n","g"," ","e","n","g","i","n","e","e","r"," ","b","o","i","l","e","r">> >>,
     << <<"k","i","t","c","h","e","n","_","f","i","t","t","e","r">>,
        "general_contractor",
        <<"k","i","t","c","h","e","n"," ","f","i","t","t","e","r">> >>,
     << <<"b","a","t","h","r","o","o","m","_","f","i","t","t","e","r">>,
        "general_contractor",
        <<"b","a","t","h","r","o","o","m"," ","f","i","t","t","e","r">> >>,
     << <<"t","i","l","e","r">>,
        "general_contractor",
        <<"t","i","l","e","r"," ","t","i","l","i","n","g"," ","s","e","r","v","i","c","e","s">> >>,
     << <<"d","e","c","o","r","a","t","o","r">>,
        "painter",
        <<"d","e","c","o","r","a","t","o","r"," ","p","a","i","n","t","i","n","g"," ","s","e","r","v","i","c","e","s">> >> >>

industry_mapping ==
  << << <<"c","a","r","p","e","n","t","e","r">>,
        <<"C","a","r","p","e","n","t","e","r","s"," ","&"," ","J","o","i","n","e","r","s">> >>,
     << <<"b","u","i","l","d","e","r">>,
        <<"G","e","n","e","r","a","l"," ","B","u","i","l","d","e","r","s">> >>,
     << <<"e","l","e","c","t","r","i","c","i","a","n">>,
        <<"E","l","e","c","t","r","i","c","i","a","n","s">> >>,
     << <<"p","l","u","m","b","e","r">>,
        <<"P","l","u","m","b","e","r","s">> >>,
     << <<"r","o","o","f","e","r">>,
        <<"R","o","o","f","i","n","g"," ","S","p","e","c","i","a","l","i","s","t","s">> >>,
     << <<"p","a","i","n","t","e","r">>,
        <<"D","e","c","o","r","a","t","o","r","s">> >>,
     << <<"l","a","n","d","s","c","a","p","e","r">>,
        <<"L","a","n","d","s","c","a","p","e","r","s">> >>,
     << <<"p","l","a","s","t","e","r","e","r">>,
        <<"P","l","a","s","t","e","r","e","r","s">> >>,
     << <<"g","r","o","u","n","d","w","o","r","k","e","r">>,
        <<"G","r","o","u","n","d","w","o","r","k","e","r","s">> >>,
     << <<"b","r","i","c","k","l","a","y","e","r">>,
        <<"B","r","i","c","k","l","a","y","e","r","s"," ","&"," ","S","t","o","n","e","m","a","s","o","n","s">> >>,
     << <<"h","e","a","t","i","n","g","_","e","n","g","i","n","e","e","r">>,
        <<"H","e","a","t","i","n","g"," ","E","n","g","i","n","e","e","r","s">> >>,
     << <<"k","i","t","c","h","e","n","_","f","i","t","t","e","r">>,
        <<"K","i","t","c","h","e","n"," ","F","i","t","t","e","r","s">> >>,
     << <<"b","a","t","h","r","o","o","m","_","f","i","t","t","e","r">>,
        <<"P","r","o","p","e","r","t","y"," ","M","a","i","n","t","e","n","a","n","c","e">> >>,
     << <<"t","i","l","e","r">>,
        <<"T","i","l","e","r","s">> >>,
     << <<"d","e","c","o","r","a","t","o","r">>,
        <<"D","e","c","o","r","a","t","o","r","s">> >> >>

\* dict.get(key, default) on a table of rows keyed by their first element
HasKey(table, key) == \E i \in DOMAIN table : table[i][1] = key

RowOf(table, key) == table[CHOOSE i \in DOMAIN table : table[i][1] = key]

\* lines 268-288
map_business_type_to_google_type(business_type) ==
  IF HasKey(type_mapping, lower(business_type))
  THEN [type    |-> RowOf(type_mapping, lower(business_type))[2],
        keyword |-> RowOf(type_mapping, lower(business_type))[3]]
  ELSE [type |-> "general_contractor", keyword |-> business_type]

\* variant: the fallback label is the business type as given
primary_industry_untitled(business_type) ==
  IF HasKey(industry_mapping, lower(business_type))
  THEN RowOf(industry_mapping, lower(business_type))[2]
  ELSE business_type

\* line 340: industry_mapping.get(business_type.lower(), business_type.title())
primary_industry(business_type) ==
  IF HasKey(industry_mapping, lower(business_type))
  THEN RowOf(industry_mapping, lower(business_type))[2]
  ELSE title(business_type)

(***************************************************************************)
(* Registry Matcher: calculate_name_similarity and the best-match loop of  *)
(* enhance_with_companies_house_data.  A similarity is the exact fraction  *)
(* <<numerator, denominator>>; within the bounds used here no sum or       *)
(* quotient lies close enough to another for float rounding to change a    *)
(* comparison.                                                             *)
(***************************************************************************)
suffixes ==
  << <<"l","t","d">>,
     <<"l","i","m","i","t","e","d">>,
     <<"p","l","c">>,
     <<"l","l","p">>,
     <<"l","i","m","i","t","e","d"," ","l","i","a","b","i","l","i","t","y"," ","p","a","r","t","n","e","r","s","h","i","p">>,
     <<"c","o","m","p","a","n","y">>,
     <<"c","o">> >>

RECURSIVE StripSuffixes(_, _)
\* the loop over suffixes, from the k-th suffix on
StripSuffixes(name, k) ==
  IF k > Len(suffixes) THEN name
  ELSE StripSuffixes(
         replace(replace(name, <<" ">> \o suffixes[k], <<>>),
                 suffixes[k] \o <<" ">>, <<>>),
         k + 1)

\* lines 159-166: lower-case, drop punctuation, trim, remove the suffixes
NormalizeName(name) == StripSuffixes(strip(re_sub_punct(lower(name))), 1)

calculate_name_similarity(name1, name2) ==
  LET words1 == Range(split(NormalizeName(name1)))
      words2 == Range(split(NormalizeName(name2)))
  IN  IF words1 = {} \/ words2 = {} THEN <<0, 1>>
      ELSE <<Cardinality(words1 \cap words2), Cardinality(words1 \cup words2)>>

RatAdd(a, b) == <<a[1] * b[2] + b[1] * a[2], a[2] * b[2]>>

RatGT(a, b) == a[1] * b[2] > b[1] * a[2]

\* "similarity += 0.3"
POSTCODE_BONUS == <<3, 10>>

\* "similarity > 0.4"
MIN_SIMILARITY == <<4, 10>>

\* "best_similarity = 0.0"
ZERO_SIMILARITY == <<0, 1>>

\* absent text (None or ''): both are falsy wherever the source tests them
NoText == <<>>

\* lines 197-198: the postcode test of one candidate
PostcodeMatches(postcode, company) ==
  /\ postcode # NoText
  /\ company.postal_code # NoText
  /\ contains(upper(replace(company.postal_code, <<" ">>, <<>>)),
              upper(replace(postcode, <<" ">>, <<>>)))

\* lines 194-199: the score of one candidate
CandidateScore(business_name, postcode, company) ==
  LET similarity == calculate_name_similarity(business_name, company.title)
  IN  IF PostcodeMatches(postcode, company)
      THEN RatAdd(similarity, POSTCODE_BONUS) ELSE similarity

\* variant: a similarity of exactly 0.4 is accepted
SelectsAtLeast(similarity, best_similarity) ==
  /\ RatGT(similarity, best_similarity)
  /\ ~RatGT(MIN_SIMILARITY, similarity)

\* line 201: the test that replaces the best match
Selects(similarity, best_similarity) ==
  /\ RatGT(similarity, best_similarity)
  /\ RatGT(similarity, MIN_SIMILARITY)

RECURSIVE BestMatchLoop(_, _, _, _, _, _)
\* lines 193-203, from the i-th candidate on; best_match is an index into
\* companies, 0 for None
BestMatchLoop(business_name, postcode, companies, i, best_match, best_similarity) ==
  IF i > Len(companies) THEN best_match
  ELSE LET similarity == CandidateScore(business_name, postcode, companies[i])
       IN  IF Selects(similarity, best_similarity)
           THEN BestMatchLoop(business_name, postcode, companies, i + 1, i, similarity)
           ELSE BestMatchLoop(business_name, postcode, companies, i + 1,
                              best_match, best_similarity)

\* lines 190-203
FindBestMatch(business_name, postcode, companies) ==
  BestMatchLoop(business_name, postcode, companies, 1, 0, ZERO_SIMILARITY)

(***************************************************************************)
(* Optional values: None is the empty sequence, a present value x is <<x>>.*)
(***************************************************************************)
None == <<>>

Some(x) == <<x>>

Min(a, b) == IF a < b THEN a ELSE b

Max(a, b) == IF a > b THEN a ELSE b

(***************************************************************************)
(* Bounds of the model.                                                    *)
(***************************************************************************)
\* place ids the provider can return
MaxPlaces == 2

\* results in one provider page
MaxPageLen == 1

\* next-page fetches the provider offers within one category
MaxPages == 2

\* business_types in a request
MaxCats == 2

\* largest max_results of a request
MaxResults == 2

\* candidates in one registry answer given to the matcher
MaxCands == 2

\* cache writes made one after another on the collection
MaxWrites == 4

(***************************************************************************)
(* The world outside the process: the provider's places, the registry's    *)
(* companies, the postcode table.  Which call fails is chosen per call.    *)
(***************************************************************************)
PlaceIds == 1..MaxPlaces

\* name and postcode (as extract_postcode_from_address finds it in the
\* formatted address) that place details carry, per place id
DetailsTable ==
  << [name |-> <<"A","c","m","e"," ","L","t","d">>, postcode |-> <<"S","W","1","A"," ","1","A","A">>],
     [name |-> <<"B","o","b"," ","S","m","i","t","h"," ","B","u","i","l","d","e","r","s">>, postcode |-> NoText],
     [name |-> <<"J","o","n","e","s"," ","R","o","o","f","i","n","g">>, postcode |-> <<"L","S","1"," ","4","A","P">>] >>

DetailsIndex(place_id) == ((place_id - 1) % Len(DetailsTable)) + 1

PlaceDetails(place_id) == DetailsTable[DetailsIndex(place_id)]

\* place['geometry']['location'] of a nearby-search result, in degrees
GeometryTable ==
  << [lat |-> 51, lng |-> 0], [lat |-> 51, lng |-> 1], [lat |-> 53, lng |-> -1] >>

PlaceGeometry(place_id) == GeometryTable[((place_id - 1) % Len(GeometryTable)) + 1]

\* the items of a registry search answer
RegistryItems ==
  << [title |-> <<"B","O","B"," ","J","O","N","E","S"," ","P","L","U","M","B","I","N","G"," ","C","O">>,
      postal_code |-> NoText, company_number |-> "C3"],
     [title |-> <<"A","C","M","E"," ","L","I","M","I","T","E","D">>,
      postal_code |-> <<"s","w","1","a","1","a","a">>, company_number |-> "C1"],
     [title |-> <<"S","M","I","T","H"," ","B","U","I","L","D","E","R","S"," ","L","T","D">>,
      postal_code |-> NoText, company_number |-> "C2"] >>

\* company_status of the registry profile, per company number
ProfileStatus(company_number) ==
  IF company_number = "C1" THEN "active" ELSE "dissolved"

\* the registry's officers of a company, in registry order
RegistryOfficers(company_number) ==
  IF company_number = "C1" THEN <<1, 2, 3, 4, 5, 6>> ELSE <<7>>

\* the normalised postcodes the offline table has coordinates for
PostcodeTable == { <<"S","W","1","A"," ","1","A","A">> }

\* how a call to an external service ends
CallOutcomes == {"ok", "http_error", "exception"}

(***************************************************************************)
(* Companies House calls (lines 93-155): each swallows its own failure.    *)
(***************************************************************************)
\* lines 93-116
search_companies_house(outcome, items) ==
  IF outcome = "ok" THEN items ELSE <<>>

\* variant: a failed call yields a profile without status instead of None
get_company_profile_default(outcome, company_number) ==
  Some([company_status |-> IF outcome = "ok" THEN ProfileStatus(company_number) ELSE ""])

\* lines 118-135
get_company_profile(outcome, company_number) ==
  IF outcome = "ok"
  THEN Some([company_status |-> ProfileStatus(company_number)])
  ELSE None

\* lines 137-155
get_company_officers(outcome, company_number) ==
  IF outcome = "ok" THEN RegistryOfficers(company_number) ELSE <<>>

\* "officers[:5]"
OFFICER_LIMIT == 5

\* variant: every officer is kept
DirectorsAll(officers) == officers

\* lines 221-228
Directors(officers) == SubSeq(officers, 1, Min(OFFICER_LIMIT, Len(officers)))

\* lines 180-242; srch, prof and offs are the outcomes of the three calls
enhance_with_companies_house_data(business_name, postcode, items, srch, prof, offs) ==
  LET companies  == search_companies_house(srch, items)
      best_match == FindBestMatch(business_name, postcode, companies)
  IN  IF companies = <<>> \/ best_match = 0 THEN None
      ELSE LET company_number == companies[best_match].company_number
               profile  == get_company_profile(prof, company_number)
               officers == get_company_officers(offs, company_number)
           IN  IF profile = None THEN None
               ELSE Some([company_number |-> company_number,
                          company_status |-> profile[1].company_status,
                          directors      |-> Directors(officers)])

\* how the registry search can end: a 200 with items, a 200 without items,
\* another status, an exception
SearchOutcomes == {"ok", "empty", "http_error", "exception"}

ItemsOf(srch) == IF srch = "empty" THEN <<>> ELSE RegistryItems

CallOutcomeOf(srch) == IF srch = "empty" THEN "ok" ELSE srch

\* is a best match found, so that the profile and officers calls are made
MatchFound(business_name, postcode, srch) ==
  LET companies == search_companies_house(CallOutcomeOf(srch), ItemsOf(srch))
  IN  companies # <<>> /\ FindBestMatch(business_name, postcode, companies) # 0

\* variant: any match counts as verified
VerificationAnyMatch(enhance_with_ch, companies_house_data) ==
  IF enhance_with_ch /\ companies_house_data # None THEN "verified" ELSE "unverified"

\* lines 325-334
VerificationStatus(enhance_with_ch, companies_house_data) ==
  IF enhance_with_ch /\ companies_house_data # None
  THEN (IF companies_house_data[1].company_status = "active"
        THEN "verified" ELSE "inactive")
  ELSE "unverified"

(***************************************************************************)
(* Geocoder (lines 245-259 and 385-396).                                   *)
(***************************************************************************)
HTTPException(status_code) == [type |-> "HTTPException", status_code |-> status_code]

OtherException == [type |-> "Exception", status_code |-> 0]

Returned(value) == [raised |-> FALSE, value |-> value, exc |-> OtherException]

Raised(exc) == [raised |-> TRUE, value |-> None, exc |-> exc]

\* "len(...) <= 8"
POSTCODE_MAX_LEN == 8

\* line 388: is the location treated as a postcode
LooksLikePostcode(location) ==
  /\ isalnum(replace(location, <<" ">>, <<>>))
  /\ Len(replace(location, <<" ">>, <<>>)) <= POSTCODE_MAX_LEN

\* lines 245-259; outcome is how the table lookup ends.  A lookup without
\* coordinates (line 251 false) raises ValueError, which line 258 turns into
\* a 400, as it does any exception of the lookup.
convert_postcode_to_coordinates(postcode, outcome) ==
  IF outcome = "looked_up" /\ strip(upper(postcode)) \in PostcodeTable
  THEN Returned([lat |-> 51, lng |-> 0])
  ELSE Raised(HTTPException(400))

\* lines 393-396; outcome is what gmaps.geocode(location + ", UK") does
geocode_address(location, outcome) ==
  IF outcome = "result" THEN Returned([lat |-> 53, lng |-> -1])
  ELSE IF outcome = "empty" THEN Raised(HTTPException(400))
  ELSE Raised(OtherException)

\* lines 387-396
ResolveLocation(location, outcome) ==
  IF LooksLikePostcode(location)
  THEN convert_postcode_to_coordinates(location, outcome)
  ELSE geocode_address(location, outcome)

\* the outcomes the resolution of a location can have
ResolveOutcomes(location) ==
  IF LooksLikePostcode(location) THEN {"looked_up", "exception"}
  ELSE {"result", "empty", "exception"}

(***************************************************************************)
(* The search handler's policies.                                          *)
(***************************************************************************)
\* lines 467-469: every exception of the handler body, the HTTPException of
\* the geocoding step included, is answered with 500
SearchFailed(exc) ==
  [status |-> 500, success |-> FALSE, total_found |-> 0, businesses |-> <<>>,
   search_location |-> None, search_params |-> None]

\* variant: no place id counts as processed
NeverProcessed(place_id, processed_place_ids) == FALSE

\* lines 416 and 438
AlreadyProcessed(place_id, processed_place_ids) == place_id \in processed_place_ids

\* variant: a place id is added only once its record is built
ProcessedAfterFailureUnmarked(processed_place_ids, place_id) == processed_place_ids

\* lines 417 and 439: the place id is added before process_place_details is
\* called, so it is in the set also when that call yields no record
ProcessedAfterFailure(processed_place_ids, place_id) ==
  processed_place_ids \cup {place_id}

\* variant: the list is returned uncut
LimitNone(all_businesses, max_results) == all_businesses

\* line 457: all_businesses[:max_results], negative max_results included
Limit(all_businesses, max_results) ==
  IF max_results >= 0
  THEN SubSeq(all_businesses, 1, Min(max_results, Len(all_businesses)))
  ELSE SubSeq(all_businesses, 1, Max(Len(all_businesses) + max_results, 0))

\* variant: a failed initial call ends the loop over business types
AfterSearchErrorStop(ci, n) == n + 1

\* lines 452-454: "continue" with the next business type
AfterSearchError(ci, n) == ci + 1

\* variant: the error of a category is raised to the handler
SearchErrorIsFatal == TRUE

\* lines 452-454: the error of a category is logged, not raised
SearchErrorRaises == FALSE

(***************************************************************************)
(* Storage: the businesses collection, a sequence of documents.            *)
(***************************************************************************)
HasDoc(collection, place_id) == \E i \in DOMAIN collection : collection[i].place_id = place_id

FirstDoc(collection, place_id) ==
  CHOOSE i \in DOMAIN collection :
    /\ collection[i].place_id = place_id
    /\ \A j \in DOMAIN collection : collection[j].place_id = place_id => i <= j

\* variant: the write inserts a new document whatever the collection holds
insert_one(collection, business_info, now) ==
  Append(collection,
         [place_id |-> business_info.place_id, info |-> business_info,
          last_updated |-> now])

\* lines 367-371: update_one({"place_id": ...}, {"$set": {every field of the
\* record, last_updated}}, upsert=True)
update_one(collection, business_info, now) ==
  IF HasDoc(collection, business_info.place_id)
  THEN [collection EXCEPT ![FirstDoc(collection, business_info.place_id)] =
          [place_id |-> business_info.place_id, info |-> business_info,
           last_updated |-> now]]
  ELSE Append(collection,
              [place_id |-> business_info.place_id, info |-> business_info,
               last_updated |-> now])

\* variant: the write is dropped
cache_business_info_dropped(collection, business_info, now, outcome) == collection

\* lines 364-373; a storage error is logged and swallowed
cache_business_info(collection, business_info, now, outcome) ==
  IF outcome = "ok" THEN update_one(collection, business_info, now) ELSE collection

\* the indexes the code creates on the collection: lines 483 and 580, line 581
GEO_INDEX == "location_2dsphere"

UNIQUE_INDEX == "place_id_unique"

AllIndexes == {GEO_INDEX, UNIQUE_INDEX}

\* lines 367-371 without the unique index of line 581: an upsert that finds
\* no document for the place id inserts one in a second step of the server,
\* and a concurrent upsert of the same place id can insert in between; with
\* the unique index the collection holds one document per place id
InsertsLater(collection, existing, place_id, outcome) ==
  /\ outcome = "ok"
  /\ ~HasDoc(collection, place_id)
  /\ UNIQUE_INDEX \notin existing

\* db.businesses.create_index(...): creating an index that exists is a no-op
create_index(existing, name, outcome) ==
  IF outcome = "ok" THEN existing \cup {name} ELSE existing

\* how the two create_index calls of startup_event can end
StartupOutcomes == {"ok", "geo_fails", "unique_fails"}

\* lines 576-584: both calls stand in one try; the exception of the first
\* skips the second, and either exception is logged and startup goes on
startup_event(existing, outcome) ==
  IF outcome = "geo_fails" THEN existing
  ELSE create_index(create_index(existing, GEO_INDEX, "ok"), UNIQUE_INDEX,
                    IF outcome = "ok" THEN "ok" ELSE "exception")

(***************************************************************************)
(* The cached lookup, GET /api/cached-businesses (lines 471-518).          *)
(* Distances are planar, in whole kilometres, a degree being 100 km.       *)
(***************************************************************************)
KM_PER_DEGREE == 100

METRES_PER_KM == 1000

\* the square of the distance, in degrees, of a document from [lng, lat]
Distance2(doc, lng, lat) ==
  LET dx == doc.info.location.coordinates[1] - lng
      dy == doc.info.location.coordinates[2] - lat
  IN  dx * dx + dy * dy

\* line 494: $maxDistance, in metres
WithinRadius(doc, lng, lat, radius) ==
  Distance2(doc, lng, lat) * KM_PER_DEGREE * KM_PER_DEGREE
    <= (radius \div METRES_PER_KM) * (radius \div METRES_PER_KM)

\* lines 499-503: the filters given are equality conditions on the document
MatchesFilters(doc, business_type, verified_only) ==
  /\ business_type # NoText => doc.info.primary_industry = business_type
  /\ verified_only => doc.info.verification_status = "verified"

\* lines 487-503: the documents the query selects, in collection order
SelectDocs(collection, lng, lat, radius, business_type, verified_only) ==
  LET Selected(doc) ==
        /\ WithinRadius(doc, lng, lat, radius)
        /\ MatchesFilters(doc, business_type, verified_only)
  IN  SelectSeq(collection, Selected)

\* variant: the documents come in collection order
CollectionOrder(docs, lng, lat) == docs

RECURSIVE NearestFirst(_, _, _)
\* lines 488-489: $nearSphere returns the documents nearest first: those at
\* the least distance, in collection order, then the farther ones likewise
NearestFirst(docs, lng, lat) ==
  IF docs = <<>> THEN <<>>
  ELSE LET distances == { Distance2(docs[i], lng, lat) : i \in DOMAIN docs }
           least     == CHOOSE d \in distances : \A e \in distances : d <= e
           IsNearest(doc) == Distance2(doc, lng, lat) = least
           IsFarther(doc) == Distance2(doc, lng, lat) > least
       IN  SelectSeq(docs, IsNearest)
             \o NearestFirst(SelectSeq(docs, IsFarther), lng, lat)

\* line 505: .limit(100).to_list(100)
LOOKUP_LIMIT == 100

\* lines 480-518 after the index creation; query holds lat, lng, radius,
\* business_type and verified_only; $nearSphere needs the geospatial index,
\* and every exception is answered 500
get_cached_businesses(collection, existing, query, find_outcome) ==
  IF GEO_INDEX \notin existing \/ find_outcome # "ok"
  THEN [status |-> 500, success |-> FALSE, total_found |-> 0, businesses |-> <<>>]
  ELSE LET found == NearestFirst(
                      SelectDocs(collection, query.lng, query.lat, query.radius,
                                 query.business_type, query.verified_only),
                      query.lng, query.lat)
           businesses == SubSeq(found, 1, Min(LOOKUP_LIMIT, Len(found)))
       IN  [status |-> 200, success |-> TRUE,
            total_found |-> Len(businesses), businesses |-> businesses]

(***************************************************************************)
(* State.                                                                  *)
(***************************************************************************)
VARIABLES
  rq,       \* per running search: the request, the handler's locals, its position
  db,       \* the businesses collection
  clock,    \* datetime.utcnow(), advanced by every cache write
  matcher,  \* a call of a pure function on its own: inputs and result
  indexes,  \* the indexes of the businesses collection
  boot,     \* "starting" until startup_event has run, then "serving"
  cached,   \* the last answer of GET /api/cached-businesses, with its query
  store_log \* history of the last cache write made on its own

vars == <<rq, db, clock, matcher, indexes, boot, cached, store_log>>

\* what a search leaves alone
service == <<indexes, boot, cached, store_log>>

Locations ==
  { << >>,
    <<"s","w","1","a"," ","1","a","a">>,
    <<"Z","Z","9","9"," ","9","Z","Z">>,
    <<"1","0"," ","H","i","g","h"," ","S","t",","," ","L","e","e","d","s">> }

Categories ==
  { <<"B","u","i","l","d","e","r">>,
    <<"r","o","o","f","_","w","i","z","a","r","d">> }

SeqsUpTo(S, n) == UNION { [1..k -> S] : k \in 0..n }

Requests ==
  [location : Locations,
   business_types : SeqsUpTo(Categories, MaxCats),
   max_results : (-1)..MaxResults,
   enhance_with_companies_house : BOOLEAN]

NoPage == [results |-> <<>>, next_page_token |-> FALSE]

NoCall == [ci |-> 0, type |-> "", keyword |-> <<>>, page_token |-> FALSE, delay |-> 0]

NoEvent ==
  [place_id |-> 0, details |-> "not_called", srch |-> "not_called",
   prof |-> "not_called", offs |-> "not_called", cache |-> "not_called"]

\* lines 385, 398-399 and the bookkeeping of what the handler did; pending is
\* the document of an upsert that found no match and has yet to insert
NewSearch(search_request) ==
  [search_request      |-> search_request,
   pc                  |-> "geocode",
   coordinates         |-> None,
   ci                  |-> 1,
   all_businesses      |-> <<>>,
   processed_place_ids |-> {},
   places_result       |-> NoPage,
   npages              |-> 0,
   response            |-> None,
   pending             |-> None,
   \* history, read by the properties only: how the location resolution
   \* ended; <<category index, place id>> of every provider result in the
   \* order received; the category index each record of all_businesses was
   \* built for; the place ids skipped as already processed; the last
   \* provider call; the category indexes whose initial call was made, whose
   \* initial call failed, and <<category index, all_businesses>> at each
   \* failed page fetch; the calls made for the last place processed; the
   \* place ids whose cache write storage rejected; per place id the number
   \* of details calls and of enrichment calls made; the place ids whose
   \* details call raised
   geocoded            |-> "not_called",
   offered             |-> <<>>,
   built_for           |-> <<>>,
   skipped             |-> {},
   last_call           |-> NoCall,
   searched            |-> {},
   init_failed         |-> {},
   page_failed         |-> {},
   last_place          |-> NoEvent,
   uncached            |-> {},
   attempts            |-> [p \in PlaceIds |-> [details |-> 0, enrich |-> 0]],
   details_failed      |-> {}]

Reqs == {"r1"}

(***************************************************************************)
(* The pure functions above, tabulated once over the inputs of the model.  *)
(***************************************************************************)
ProviderParams == [c \in Categories |-> map_business_type_to_google_type(c)]

IndustryLabel == [c \in Categories |-> primary_industry(c)]

Resolution ==
  [l \in Locations |-> [o \in ResolveOutcomes(l) |-> ResolveLocation(l, o)]]

WorldMatchFound ==
  [i \in DOMAIN DetailsTable |->
     [srch \in SearchOutcomes |->
        MatchFound(DetailsTable[i].name, DetailsTable[i].postcode, srch)]]

WorldEnrichment ==
  [i \in DOMAIN DetailsTable |->
     [srch \in SearchOutcomes |->
        [prof \in CallOutcomes \cup {"not_called"} |->
           [offs \in CallOutcomes \cup {"not_called"} |->
              enhance_with_companies_house_data(
                DetailsTable[i].name, DetailsTable[i].postcode, ItemsOf(srch),
                CallOutcomeOf(srch), prof, offs)]]]]

\* no cache write made yet: the record last stored per place id and, for a
\* write made on its own, its record, its outcome and the collection it was
\* applied to
NoWrite ==
  [last |-> [p \in PlaceIds |-> None], info |-> None,
   outcome |-> "not_called", before |-> <<>>]

\* a service whose startup created both indexes, and one search
Init ==
  /\ rq \in [Reqs -> {NewSearch(q) : q \in Requests}]
  /\ db = <<>>
  /\ clock = 0
  /\ matcher = [pc |-> "off"]
  /\ indexes = AllIndexes
  /\ boot = "serving"
  /\ cached = None
  /\ store_log = NoWrite

\* lines 290-362 on the success path: the BusinessInfo built for a place
BuildBusinessInfo(place_id, business_type, enhance_with_ch, companies_house_data) ==
  [place_id             |-> place_id,
   company_name         |-> PlaceDetails(place_id).name,
   primary_industry     |-> IndustryLabel[business_type],
   postcode             |-> PlaceDetails(place_id).postcode,
   location             |-> [type |-> "Point",
                             coordinates |-> <<PlaceGeometry(place_id).lng,
                                               PlaceGeometry(place_id).lat>>],
   companies_house_data |-> companies_house_data,
   verification_status  |-> VerificationStatus(enhance_with_ch, companies_house_data)]

(***************************************************************************)
(* Actions of one search, POST /api/search-businesses (lines 380-469).     *)
(***************************************************************************)
\* lines 383-396: resolve the location; a failure ends the request
Geocode(r) ==
  /\ boot = "serving"
  /\ rq[r].pc = "geocode"
  /\ \E outcome \in ResolveOutcomes(rq[r].search_request.location) :
       LET res == Resolution[rq[r].search_request.location][outcome]
       IN  IF res.raised
           THEN rq' = [rq EXCEPT ![r].pc = "done",
                                 ![r].geocoded = outcome,
                                 ![r].response = Some(SearchFailed(res.exc))]
           ELSE rq' = [rq EXCEPT ![r].pc = "category",
                                 ![r].geocoded = outcome,
                                 ![r].coordinates = Some(res.value)]
  /\ UNCHANGED <<db, clock, matcher, service>>

\* the results of a page, each with the index of the category asked for
Tagged(ci, results) == [i \in DOMAIN results |-> <<ci, results[i]>>]

\* the pages a provider answer can carry
Pages == SeqsUpTo(PlaceIds, MaxPageLen)

\* the provider offers a continuation token for at most MaxPages fetches
TokenChoices(npages) == IF npages < MaxPages THEN BOOLEAN ELSE {FALSE}

\* lines 402-412: the initial nearby search of the current business type
NearbySearch(r) ==
  LET s             == rq[r]
      types         == s.search_request.business_types
      params        == ProviderParams[types[s.ci]]
      call          == [ci |-> s.ci, type |-> params.type,
                        keyword |-> params.keyword,
                        page_token |-> FALSE, delay |-> 0]
  IN  /\ s.pc = "category"
      /\ s.ci <= Len(types)
      /\ \/ \* the call raises: lines 452-454
            IF SearchErrorRaises
            THEN rq' = [rq EXCEPT ![r].pc = "done",
                                  ![r].last_call = call,
                                  ![r].searched = @ \cup {s.ci},
                                  ![r].init_failed = @ \cup {s.ci},
                                  ![r].response = Some(SearchFailed(OtherException))]
            ELSE rq' = [rq EXCEPT ![r].ci = AfterSearchError(s.ci, Len(types)),
                                  ![r].last_call = call,
                                  ![r].searched = @ \cup {s.ci},
                                  ![r].init_failed = @ \cup {s.ci}]
         \/ \E results \in Pages, token \in TokenChoices(0) :
              rq' = [rq EXCEPT ![r].pc = "results",
                               ![r].places_result =
                                  [results |-> results, next_page_token |-> token],
                               ![r].npages = 0,
                               ![r].offered = @ \o Tagged(s.ci, results),
                               ![r].last_call = call,
                               ![r].searched = @ \cup {s.ci}]
      /\ UNCHANGED <<db, clock, matcher, service>>

\* lines 415-426 and 437-447: one place of the current page
ProcessPlace(r) ==
  LET s        == rq[r]
      q        == s.search_request
      place_id == Head(s.places_result.results)
      details  == PlaceDetails(place_id)
  IN  /\ s.pc = "results"
      /\ s.places_result.results # <<>>
      /\ IF AlreadyProcessed(place_id, s.processed_place_ids)
         THEN /\ rq' = [rq EXCEPT ![r].places_result.results = Tail(@),
                                    ![r].skipped = @ \cup {place_id}]
              /\ UNCHANGED <<db, clock, store_log>>
         ELSE \/ \* gmaps.place raises: process_place_details returns None
                 /\ rq' = [rq EXCEPT
                      ![r].places_result.results = Tail(@),
                      ![r].processed_place_ids =
                         ProcessedAfterFailure(@, place_id),
                      ![r].last_place = [NoEvent EXCEPT !.place_id = place_id,
                                                        !.details = "exception"],
                      ![r].attempts[place_id].details = @ + 1,
                      ![r].details_failed = @ \cup {place_id}]
                 /\ UNCHANGED <<db, clock, store_log>>
              \/ \E srch \in (IF q.enhance_with_companies_house
                              THEN SearchOutcomes ELSE {"not_called"}) :
                 \E prof \in (IF q.enhance_with_companies_house
                                 /\ WorldMatchFound[DetailsIndex(place_id)][srch]
                              THEN CallOutcomes ELSE {"not_called"}) :
                 \E offs \in (IF prof = "not_called"
                              THEN {"not_called"} ELSE CallOutcomes) :
                 \E cache \in {"ok", "exception"} :
                   LET companies_house_data ==
                         IF q.enhance_with_companies_house
                         THEN WorldEnrichment[DetailsIndex(place_id)][srch][prof][offs]
                         ELSE None
                       business_info ==
                         BuildBusinessInfo(place_id, q.business_types[s.ci],
                                           q.enhance_with_companies_house,
                                           companies_house_data)
                       inserts_later ==
                         InsertsLater(db, indexes, place_id, cache)
                   IN  /\ rq' = [rq EXCEPT
                            ![r].places_result.results = Tail(@),
                            ![r].processed_place_ids = @ \cup {place_id},
                            ![r].all_businesses = Append(@, business_info),
                            ![r].built_for = Append(@, s.ci),
                            ![r].last_place =
                               [place_id |-> place_id, details |-> "ok",
                                srch |-> srch, prof |-> prof, offs |-> offs,
                                cache |-> cache],
                            ![r].uncached =
                               IF cache = "ok" THEN @ ELSE @ \cup {place_id},
                            ![r].attempts[place_id] =
                               [details |-> @.details + 1,
                                enrich  |-> IF q.enhance_with_companies_house
                                            THEN @.enrich + 1 ELSE @.enrich],
                            ![r].pc = IF inserts_later THEN "upserting" ELSE @,
                            ![r].pending =
                               IF inserts_later
                               THEN Some([place_id |-> place_id,
                                          info |-> business_info,
                                          last_updated |-> clock])
                               ELSE @]
                       /\ db' = IF inserts_later THEN db
                                ELSE cache_business_info(db, business_info,
                                                         clock, cache)
                       /\ store_log' =
                            IF cache = "ok" /\ ~inserts_later
                            THEN [store_log EXCEPT
                                    !.last[place_id] = Some(business_info)]
                            ELSE store_log
                       /\ clock' = clock + 1
      /\ UNCHANGED <<matcher, indexes, boot, cached>>

\* "await asyncio.sleep(2)"
PAGE_DELAY == 2

\* variant: the loop goes on as long as the answer carries a token
MorePagesWhileToken(s) == s.places_result.next_page_token

\* line 429-430: the condition of the pagination loop
MorePages(s) ==
  /\ s.places_result.next_page_token
  /\ Len(s.all_businesses) < s.search_request.max_results

\* lines 429-450: the page is exhausted and the loop fetches the next one
NextPage(r) ==
  LET s     == rq[r]
      types == s.search_request.business_types
      call  == [ci |-> s.ci, type |-> "", keyword |-> <<>>,
                page_token |-> TRUE, delay |-> PAGE_DELAY]
  IN  /\ s.pc = "results"
      /\ s.places_result.results = <<>>
      /\ MorePages(s)
      /\ \/ \* the fetch raises: lines 448-450, "break"
            rq' = [rq EXCEPT ![r].pc = "category",
                             ![r].ci = s.ci + 1,
                             ![r].places_result = NoPage,
                             ![r].last_call = call,
                             ![r].page_failed =
                                @ \cup {<<s.ci, s.all_businesses>>}]
         \/ \E results \in Pages, token \in TokenChoices(s.npages + 1) :
              rq' = [rq EXCEPT ![r].places_result =
                                  [results |-> results, next_page_token |-> token],
                               ![r].npages = s.npages + 1,
                               ![r].offered = @ \o Tagged(s.ci, results),
                               ![r].last_call = call]
      /\ UNCHANGED <<db, clock, matcher, service>>

\* variant: the loop ends only once the total has reached max_results
LoopEndsWhenFull(s) == Len(s.all_businesses) >= s.search_request.max_results

\* lines 429-430: the loop ends when its condition is false, that is with no
\* token in the last answer or with the total at max_results
LoopEnds(s) == ~MorePages(s)

\* lines 429-430 false: the loop ends and the for loop moves on
EndCategory(r) ==
  LET s == rq[r]
  IN  /\ s.pc = "results"
      /\ s.places_result.results = <<>>
      /\ LoopEnds(s)
      /\ rq' = [rq EXCEPT ![r].pc = "category",
                          ![r].ci = s.ci + 1,
                          ![r].places_result = NoPage]
      /\ UNCHANGED <<db, clock, matcher, service>>

\* lines 367-371: the insert of an upsert that had found no document
CompleteUpsert(r) ==
  /\ rq[r].pc = "upserting"
  /\ db' = Append(db, rq[r].pending[1])
  /\ rq' = [rq EXCEPT ![r].pc = "results", ![r].pending = None]
  /\ store_log' = [store_log EXCEPT
                     !.last[rq[r].pending[1].place_id] = Some(rq[r].pending[1].info)]
  /\ UNCHANGED <<clock, matcher, indexes, boot, cached>>

\* lines 456-465: every business type is done
Respond(r) ==
  LET s == rq[r]
      limited_results == Limit(s.all_businesses, s.search_request.max_results)
  IN  /\ s.pc = "category"
      /\ s.ci > Len(s.search_request.business_types)
      /\ rq' = [rq EXCEPT
           ![r].pc = "done",
           ![r].response =
              Some([status |-> 200, success |-> TRUE,
                    total_found |-> Len(limited_results),
                    businesses |-> limited_results,
                    search_location |-> s.coordinates,
                    search_params |-> Some(s.search_request)])]
      /\ UNCHANGED <<db, clock, matcher, service>>

Next ==
  \/ \E r \in DOMAIN rq : Geocode(r)
  \/ \E r \in DOMAIN rq : NearbySearch(r)
  \/ \E r \in DOMAIN rq : ProcessPlace(r)
  \/ \E r \in DOMAIN rq : NextPage(r)
  \/ \E r \in DOMAIN rq : EndCategory(r)
  \/ \E r \in DOMAIN rq : Respond(r)

Spec == Init /\ [][Next]_vars

(***************************************************************************)
(* One search under fair scheduling: the event loop resumes the handler    *)
(* whenever the call it awaits has returned or raised, and every call to   *)
(* the provider, the registry and storage does one or the other.           *)
(***************************************************************************)
LiveRequests ==
  [location : Locations,
   business_types : SeqsUpTo(Categories, MaxCats),
   max_results : 0..MaxResults,
   enhance_with_companies_house : {FALSE}]

InitLive ==
  /\ rq \in [Reqs -> {NewSearch(q) : q \in LiveRequests}]
  /\ db = <<>>
  /\ clock = 0
  /\ matcher = [pc |-> "off"]
  /\ indexes = AllIndexes
  /\ boot = "serving"
  /\ cached = None
  /\ store_log = NoWrite

Fairness ==
  \A r \in Reqs :
    /\ WF_vars(Geocode(r))
    /\ WF_vars(NearbySearch(r))
    /\ WF_vars(ProcessPlace(r))
    /\ WF_vars(NextPage(r))
    /\ WF_vars(EndCategory(r))
    /\ WF_vars(Respond(r))

SpecLive == InitLive /\ [][Next]_vars /\ Fairness

(***************************************************************************)
(* The best-match loop on its own: inputs drawn at the start, one call.    *)
(***************************************************************************)
MatchNames ==
  { <<"A","c","m","e"," ","L","t","d">>,
    <<"B","o","b"," ","S","m","i","t","h"," ","B","u","i","l","d","e","r","s">> }

MatchPostcodes == { NoText, <<"s","w","1","a"," ","1","a","a">> }

MatchCandidates ==
  Range(RegistryItems) \cup
  { [title |-> <<"B","O","B"," ","S","M","I","T","H"," ","R","O","O","F","I","N","G"," ","S","E","R","V","I","C","E","S">>,
     postal_code |-> NoText, company_number |-> "C4"],
    [title |-> <<"B","O","B"," ","J","O","N","E","S"," ","P","L","U","M","B","I","N","G"," ","C","O">>,
     postal_code |-> <<"S","W","1","A"," ","1","A","A">>, company_number |-> "C5"],
    [title |-> <<"A","C","M","E">>,
     postal_code |-> NoText, company_number |-> "C6"] }

InitMatch ==
  /\ rq = << >>
  /\ db = <<>>
  /\ clock = 0
  /\ indexes = AllIndexes
  /\ boot = "serving"
  /\ cached = None
  /\ store_log = NoWrite
  /\ matcher \in [pc : {"call"},
                  business_name : MatchNames,
                  postcode : MatchPostcodes,
                  companies : SeqsUpTo(MatchCandidates, MaxCands),
                  best_match : {0}]

MatchApply ==
  /\ matcher.pc = "call"
  /\ matcher' = [matcher EXCEPT
       !.pc = "done",
       !.best_match = FindBestMatch(matcher.business_name, matcher.postcode,
                                    matcher.companies)]
  /\ UNCHANGED <<rq, db, clock, service>>

NextMatch == MatchApply

SpecMatch == InitMatch /\ [][NextMatch]_vars

(***************************************************************************)
(* The service: startup, one search, cached lookups at any time.           *)
(***************************************************************************)
\* lines 576-584: startup_event runs before the first request is served
Startup ==
  /\ boot = "starting"
  /\ \E outcome \in StartupOutcomes :
       indexes' = startup_event(indexes, outcome)
  /\ boot' = "serving"
  /\ UNCHANGED <<rq, db, clock, matcher, cached, store_log>>

\* the query parameters of a lookup: lat, lng (lines 473-474), radius (475,
\* default 20000), business_type (476, absent or empty: no filter) and
\* verified_only (477)
LookupQueries ==
  { [lat |-> pt.lat, lng |-> pt.lng, radius |-> radius,
     business_type |-> business_type, verified_only |-> verified_only] :
      pt \in {[lat |-> 51, lng |-> 0], [lat |-> 53, lng |-> -1]},
      radius \in {20000, 300000},
      business_type \in {NoText} \cup {IndustryLabel[c] : c \in Categories},
      verified_only \in BOOLEAN }

\* the lookups made while a search runs: around the search location
ServiceQueries ==
  { query \in LookupQueries :
      query.lat = 51 /\ query.lng = 0 /\ query.radius = 20000 }

\* lines 471-518: one lookup with a query of queries; the index creation of
\* line 483 and the find of line 505 each succeed or raise
CachedBusinesses(queries) ==
  /\ boot = "serving"
  /\ \E query \in queries :
     \E index_outcome \in {"ok", "exception"}, find_outcome \in {"ok", "exception"} :
       LET existing == create_index(indexes, GEO_INDEX, index_outcome)
       IN  /\ indexes' = existing
           /\ cached' = Some([query    |-> query,
                              response |-> get_cached_businesses(
                                             db, existing, query, find_outcome)])
  /\ UNCHANGED <<rq, db, clock, matcher, boot, store_log>>

\* the searches of the service specification
ServiceRequests ==
  [location : {<<"s","w","1","a"," ","1","a","a">>},
   business_types : SeqsUpTo(Categories, 1) \ {<<>>},
   max_results : {1},
   enhance_with_companies_house : BOOLEAN]

InitService ==
  /\ rq \in [Reqs -> {NewSearch(q) : q \in ServiceRequests}]
  /\ db = <<>>
  /\ clock = 0
  /\ matcher = [pc |-> "off"]
  /\ indexes = {}
  /\ boot = "starting"
  /\ cached = None
  /\ store_log = NoWrite

NextService ==
  \/ Startup
  \/ \E r \in DOMAIN rq : Geocode(r)
  \/ \E r \in DOMAIN rq : NearbySearch(r)
  \/ \E r \in DOMAIN rq : ProcessPlace(r)
  \/ \E r \in DOMAIN rq : CompleteUpsert(r)
  \/ \E r \in DOMAIN rq : NextPage(r)
  \/ \E r \in DOMAIN rq : EndCategory(r)
  \/ \E r \in DOMAIN rq : Respond(r)
  \/ CachedBusinesses(ServiceQueries)

SpecService == InitService /\ [][NextService]_vars

(***************************************************************************)
(* Two searches served at once: the event loop switches between the        *)
(* handlers at their awaits, so their steps interleave in every order.     *)
(***************************************************************************)
ConcReqs == {"r1", "r2"}

\* the two searches share the location and differ in the category
ConcRequest(r) ==
  [location |-> <<"s","w","1","a"," ","1","a","a">>,
   business_types |-> IF r = "r1"
                      THEN << <<"B","u","i","l","d","e","r">> >>
                      ELSE << <<"r","o","o","f","_","w","i","z","a","r","d">> >>,
   max_results |-> 1,
   enhance_with_companies_house |-> FALSE]

InitConc ==
  /\ rq = [r \in ConcReqs |-> NewSearch(ConcRequest(r))]
  /\ db = <<>>
  /\ clock = 0
  /\ matcher = [pc |-> "off"]
  /\ indexes = {}
  /\ boot = "starting"
  /\ cached = None
  /\ store_log = NoWrite

NextConc ==
  \/ Startup
  \/ \E r \in DOMAIN rq : Geocode(r)
  \/ \E r \in DOMAIN rq : NearbySearch(r)
  \/ \E r \in DOMAIN rq : ProcessPlace(r)
  \/ \E r \in DOMAIN rq : CompleteUpsert(r)
  \/ \E r \in DOMAIN rq : NextPage(r)
  \/ \E r \in DOMAIN rq : EndCategory(r)
  \/ \E r \in DOMAIN rq : Respond(r)

SpecConc == InitConc /\ [][NextConc]_vars

(***************************************************************************)
(* The cached lookup on its own, over collections of several sizes.        *)
(***************************************************************************)
\* the document a search with enrichment stores for a place: odd place ids
\* under the first category, even ones under the second
SampleDoc(place_id) ==
  [place_id     |-> place_id,
   info         |-> BuildBusinessInfo(
                      place_id,
                      IF place_id % 2 = 1
                      THEN <<"B","u","i","l","d","e","r">>
                      ELSE <<"r","o","o","f","_","w","i","z","a","r","d">>,
                      TRUE,
                      WorldEnrichment[DetailsIndex(place_id)]["ok"]["ok"]["ok"]),
   last_updated |-> 0]

\* collections of no document, a few, and one more than the lookup returns
SampleCollections ==
  { [place_id \in 1..n |-> SampleDoc(place_id)] : n \in {0, 3, 6, LOOKUP_LIMIT + 1} }

InitLookup ==
  /\ rq = << >>
  /\ db \in SampleCollections
  /\ clock = 0
  /\ matcher = [pc |-> "off"]
  /\ indexes \in SUBSET AllIndexes
  /\ boot = "serving"
  /\ cached = None
  /\ store_log = NoWrite

NextLookup == CachedBusinesses(LookupQueries)

SpecLookup == InitLookup /\ [][NextLookup]_vars

(***************************************************************************)
(* The cache write on its own: records upserted one after another.         *)
(***************************************************************************)
\* the records given to the cache: each place under either category
StoreRecords ==
  { BuildBusinessInfo(p, c, FALSE, None) : p \in PlaceIds, c \in Categories }

InitStore ==
  /\ rq = << >>
  /\ db = <<>>
  /\ clock = 0
  /\ matcher = [pc |-> "off"]
  /\ indexes \in SUBSET AllIndexes
  /\ boot = "serving"
  /\ cached = None
  /\ store_log = NoWrite

\* lines 364-373: one call of cache_business_info
StoreWrite ==
  /\ clock < MaxWrites
  /\ \E business_info \in StoreRecords, outcome \in {"ok", "exception"} :
       /\ db' = cache_business_info(db, business_info, clock, outcome)
       /\ store_log' =
            [last    |-> IF outcome = "ok"
                         THEN [store_log.last EXCEPT
                                 ![business_info.place_id] = Some(business_info)]
                         ELSE store_log.last,
             info    |-> Some(business_info),
             outcome |-> outcome,
             before  |-> db]
  /\ clock' = clock + 1
  /\ UNCHANGED <<rq, matcher, indexes, boot, cached>>

NextStore == StoreWrite

SpecStore == InitStore /\ [][NextStore]_vars

(***************************************************************************)
(* The name similarity on its own: two names drawn, one call.              *)
(***************************************************************************)
SimNames ==
  { <<"A","c","m","e"," ","L","t","d">>,
    <<"A","C","M","E">>,
    <<"A","c","m","e",","," ","L","t","d",".">>,
    <<"A","c","m","e","-","L","t","d">>,
    <<"A","c","m","e"," ","P","L","C">>,
    <<"a","c","m","e"," ","l","l","p">>,
    <<"A","c","m","e"," ","C","o","m","p","a","n","y">>,
    <<"A","c","m","e"," ","C","o">>,
    <<"!","!">>,
    <<"U","n","l","i","m","i","t","e","d"," ","C","o">>,
    <<"U","n","l","i","m","i","t","e","d">>,
    <<"B","o","b"," ","S","m","i","t","h"," ","B","u","i","l","d","e","r","s">> }

InitSim ==
  /\ rq = << >>
  /\ db = <<>>
  /\ clock = 0
  /\ matcher \in [pc : {"call"}, name1 : SimNames, name2 : SimNames,
                  similarity : {ZERO_SIMILARITY}]
  /\ indexes = AllIndexes
  /\ boot = "serving"
  /\ cached = None
  /\ store_log = NoWrite

\* lines 157-178: one call of calculate_name_similarity
SimApply ==
  /\ matcher.pc = "call"
  /\ matcher' = [matcher EXCEPT
       !.pc = "done",
       !.similarity = calculate_name_similarity(matcher.name1, matcher.name2)]
  /\ UNCHANGED <<rq, db, clock, service>>

NextSim == SimApply

SpecSim == InitSim /\ [][NextSim]_vars

(***************************************************************************)
(* Properties.                                                             *)
(***************************************************************************)
Answered(r) == rq[r].response # None

ResponseOf(r) == rq[r].response[1]

Succeeded(r) == Answered(r) /\ ResponseOf(r).status = 200

Failures == {"http_error", "exception"}

DistinctPlaceIds(businesses) ==
  \A i, j \in DOMAIN businesses :
    i # j => businesses[i].place_id # businesses[j].place_id

\* C1: within one search the businesses gathered, and so the businesses
\* returned, hold at most one entry per place id, whatever pages the
\* provider returned for the categories.
C1_GlobalDedup ==
  \A r \in DOMAIN rq :
    /\ DistinctPlaceIds(rq[r].all_businesses)
    /\ Answered(r) => DistinctPlaceIds(ResponseOf(r).businesses)

\* C1 witness: a search answered 200 although the provider returned a place
\* id again (in a second category or page), the place being returned once.
C1_Witness ==
  \E r \in DOMAIN rq :
    /\ Succeeded(r)
    /\ \E i \in DOMAIN ResponseOf(r).businesses :
         ResponseOf(r).businesses[i].place_id \in rq[r].skipped
    /\ \E i, j \in DOMAIN rq[r].offered :
         /\ rq[r].offered[i][1] # rq[r].offered[j][1]
         /\ rq[r].offered[i][2] = rq[r].offered[j][2]

\* the location could not be resolved: the postcode table was read and has
\* no coordinates, or the geocoder returned an empty result
Unresolvable(r) ==
  /\ rq[r].coordinates = None
  /\ rq[r].geocoded \in {"looked_up", "empty"}

\* C2: a search whose location cannot be resolved is answered with 400.
C2_UnresolvableIs400 ==
  \A r \in DOMAIN rq :
    (Answered(r) /\ Unresolvable(r)) => ResponseOf(r).status = 400

\* C3: a search whose location is the empty string is answered with a 4xx
\* status.
C3_EmptyLocationIs4xx ==
  \A r \in DOMAIN rq :
    (Answered(r) /\ rq[r].search_request.location = <<>>)
      => ResponseOf(r).status \in 400..499

RECURSIVE FirstOccurrences(_, _)
\* the entries of offered whose place id is not in seen nor earlier in offered
FirstOccurrences(offered, seen) ==
  IF offered = <<>> THEN <<>>
  ELSE IF Head(offered)[2] \in seen
       THEN FirstOccurrences(Tail(offered), seen)
       ELSE <<Head(offered)>>
              \o FirstOccurrences(Tail(offered), seen \cup {Head(offered)[2]})

RECURSIVE IsSubsequence(_, _)
\* a is b with some entries left out
IsSubsequence(a, b) ==
  IF a = <<>> THEN TRUE
  ELSE IF b = <<>> THEN FALSE
  ELSE IF Head(a) = Head(b) THEN IsSubsequence(Tail(a), Tail(b))
  ELSE IsSubsequence(a, Tail(b))

\* <<category index, place id>> of the records gathered, in list order
BuiltPairs(s) ==
  [i \in DOMAIN s.all_businesses |-> <<s.built_for[i], s.all_businesses[i].place_id>>]

\* C4: with a positive max_results, a successful search returns exactly the
\* first max_results records of all records built, which stand in category
\* order and, within a category, in the order the provider returned their
\* places; total_found is the length of the returned list and at most
\* max_results.
C4_GlobalCapInOrder ==
  \A r \in DOMAIN rq :
    LET s == rq[r]
        n == s.search_request.max_results
    IN  (Succeeded(r) /\ n > 0) =>
          /\ Len(ResponseOf(r).businesses) = Min(n, Len(s.all_businesses))
          /\ \A i \in DOMAIN ResponseOf(r).businesses :
               ResponseOf(r).businesses[i] = s.all_businesses[i]
          /\ ResponseOf(r).total_found = Len(ResponseOf(r).businesses)
          /\ ResponseOf(r).total_found <= n
          /\ \A i, j \in DOMAIN s.built_for : i < j => s.built_for[i] <= s.built_for[j]
          /\ IsSubsequence(BuiltPairs(s), FirstOccurrences(s.offered, {}))

\* C4 witness: records were built for two categories, more than max_results
\* in all, and the answer holds the first max_results of them.
C4_Witness ==
  \E r \in DOMAIN rq :
    /\ Succeeded(r)
    /\ rq[r].search_request.max_results = 1
    /\ rq[r].built_for = <<1, 2>>
    /\ ResponseOf(r).businesses = <<rq[r].all_businesses[1]>>

\* C5: once the location is resolved the search is answered 200 with
\* success = true, whichever provider, registry and storage calls failed.
C5_OnlyGeocodingIsFatal ==
  \A r \in DOMAIN rq :
    (Answered(r) /\ rq[r].coordinates # None)
      => (ResponseOf(r).status = 200 /\ ResponseOf(r).success)

\* C5 witness: a 200 answer of a search in which an initial nearby search,
\* a page fetch, a registry call and a cache write all failed.
C5_Witness ==
  \E r \in DOMAIN rq :
    /\ Succeeded(r)
    /\ rq[r].init_failed # {}
    /\ rq[r].page_failed # {}
    /\ rq[r].last_place.prof \in Failures
    /\ rq[r].last_place.cache = "exception"

\* C6: a category whose initial nearby search failed contributes no record;
\* a failed page fetch leaves the records gathered until then in place and
\* adds none for that category; and every category of a search that
\* resolved its location has had its initial nearby search by the answer.
C6_CategoryFailuresAreLocal ==
  \A r \in DOMAIN rq :
    LET s == rq[r]
    IN  /\ \A i \in DOMAIN s.built_for : s.built_for[i] \notin s.init_failed
        /\ \A f \in s.page_failed :
             /\ Len(f[2]) <= Len(s.all_businesses)
             /\ SubSeq(s.all_businesses, 1, Len(f[2])) = f[2]
             /\ \A i \in DOMAIN s.built_for : i > Len(f[2]) => s.built_for[i] # f[1]
        /\ (Answered(r) /\ s.coordinates # None)
             => s.searched = DOMAIN s.search_request.business_types

\* C6 witness: the first category's initial call failed, the second was
\* searched, its page fetch failed, and the record it had gathered before
\* is in the answer.
C6_Witness ==
  \E r \in DOMAIN rq :
    /\ Succeeded(r)
    /\ rq[r].init_failed = {1}
    /\ \E f \in rq[r].page_failed : f[1] = 2 /\ f[2] # <<>>
    /\ ResponseOf(r).businesses # <<>>

\* the categories the mapping table does not hold
UnknownCategories == { c \in Categories : ~HasKey(type_mapping, lower(c)) }

TitleOf == [c \in Categories |-> title(c)]

\* C7: the initial nearby search of a category that is not in the mapping
\* table is made with type general_contractor and the category itself as
\* keyword; every record built for it carries the title-cased category as
\* primary_industry; and the search, its location resolved, is answered 200.
C7_UnknownCategoryFallsBack ==
  \A r \in DOMAIN rq :
    LET s     == rq[r]
        types == s.search_request.business_types
    IN  /\ (s.last_call.ci > 0 /\ ~s.last_call.page_token
              /\ types[s.last_call.ci] \in UnknownCategories)
             => /\ s.last_call.type = "general_contractor"
                /\ s.last_call.keyword = types[s.last_call.ci]
        /\ \A i \in DOMAIN s.all_businesses :
             types[s.built_for[i]] \in UnknownCategories
               => s.all_businesses[i].primary_industry = TitleOf[types[s.built_for[i]]]
        /\ (Answered(r) /\ s.coordinates # None
              /\ \E i \in DOMAIN types : types[i] \in UnknownCategories)
             => ResponseOf(r).status = 200

\* C7 witness: a 200 answer to a search for roof_wizard alone, holding a
\* record whose primary_industry is Roof_Wizard.
C7_Witness ==
  \E r \in DOMAIN rq :
    /\ Succeeded(r)
    /\ rq[r].search_request.business_types = << <<"r","o","o","f","_","w","i","z","a","r","d">> >>
    /\ \E i \in DOMAIN ResponseOf(r).businesses :
         ResponseOf(r).businesses[i].primary_industry = <<"R","o","o","f","_","W","i","z","a","r","d">>

\* the score of the j-th candidate of the matcher's call
ScoreOf(j) ==
  CandidateScore(matcher.business_name, matcher.postcode, matcher.companies[j])

LastRecord(s) == s.all_businesses[Len(s.all_businesses)]

\* C9 as claimed: a failure of the registry search, profile or officers call
\* leaves the record of the place with no registry match and "unverified".
C9_AnyRegistryFailureYieldsNone ==
  \A r \in DOMAIN rq :
    LET s  == rq[r]
        lp == s.last_place
    IN  (lp.details = "ok"
           /\ (lp.srch \in Failures \/ lp.prof \in Failures \/ lp.offs \in Failures))
          => /\ s.all_businesses # <<>>
             /\ LastRecord(s).place_id = lp.place_id
             /\ LastRecord(s).companies_house_data = None
             /\ LastRecord(s).verification_status = "unverified"

\* C9 amended: for a place whose details were fetched the record is built,
\* appended to the results and given to the cache upsert (which stores it
\* unless storage fails), and it is returned unless the max_results cap cuts
\* it off; a failure of the registry search or profile call leaves it with no
\* registry match and "unverified"; a failure of the officers call alone
\* keeps the match, with an empty officer list.
C9_EnrichmentIsOptional ==
  \A r \in DOMAIN rq :
    LET s  == rq[r]
        lp == s.last_place
    IN  lp.details = "ok" =>
          /\ s.all_businesses # <<>>
          /\ LastRecord(s).place_id = lp.place_id
          /\ lp.cache # "not_called"
          /\ lp.cache = "ok" =>
               \E i \in DOMAIN db : db[i].info = LastRecord(s)
          /\ (Succeeded(r) /\ s.search_request.max_results >= Len(s.all_businesses))
               => ResponseOf(r).businesses[Len(s.all_businesses)] = LastRecord(s)
          /\ (lp.srch \in Failures \/ lp.prof \in Failures)
               => /\ LastRecord(s).companies_house_data = None
                  /\ LastRecord(s).verification_status = "unverified"
          /\ (lp.prof = "ok" /\ lp.offs \in Failures)
               => /\ LastRecord(s).companies_house_data # None
                  /\ LastRecord(s).companies_house_data[1].directors = <<>>

\* C9 witness: the profile call of the last place failed and its record, with
\* no registry match, is in the 200 answer and in storage.
C9_Witness ==
  \E r \in DOMAIN rq :
    /\ Succeeded(r)
    /\ rq[r].last_place.prof \in Failures
    /\ rq[r].last_place.cache = "ok"
    /\ \E i \in DOMAIN ResponseOf(r).businesses :
         /\ ResponseOf(r).businesses[i].place_id = rq[r].last_place.place_id
         /\ ResponseOf(r).businesses[i].companies_house_data = None
         /\ ResponseOf(r).businesses[i].verification_status = "unverified"
    /\ \E i \in DOMAIN db : db[i].place_id = rq[r].last_place.place_id

Matched(b) == b.companies_house_data # None

ConsistentVerification(b) ==
  /\ b.verification_status \in {"verified", "inactive", "unverified"}
  /\ b.verification_status = "verified"
       <=> (Matched(b) /\ b.companies_house_data[1].company_status = "active")
  /\ b.verification_status = "inactive"
       <=> (Matched(b) /\ b.companies_house_data[1].company_status # "active")
  /\ b.verification_status = "unverified" <=> ~Matched(b)

\* C10: every record built is "verified" exactly when it carries a registry
\* match whose status is "active", "inactive" exactly when it carries a match
\* with another status, "unverified" exactly when it carries none; a search
\* with enrichment disabled attaches no match.
C10_VerificationFollowsMatch ==
  \A r \in DOMAIN rq :
    /\ \A i \in DOMAIN rq[r].all_businesses :
         /\ ConsistentVerification(rq[r].all_businesses[i])
         /\ ~rq[r].search_request.enhance_with_companies_house
              => ~Matched(rq[r].all_businesses[i])
    /\ Answered(r) =>
         \A i \in DOMAIN ResponseOf(r).businesses :
           ConsistentVerification(ResponseOf(r).businesses[i])

\* C10 witness: one answer holds a verified record (active match) and an
\* inactive one (dissolved match).
C10_Witness ==
  \E r \in DOMAIN rq :
    /\ Succeeded(r)
    /\ \E i, j \in DOMAIN ResponseOf(r).businesses :
         /\ ResponseOf(r).businesses[i].verification_status = "verified"
         /\ ResponseOf(r).businesses[i].companies_house_data[1].company_status = "active"
         /\ ResponseOf(r).businesses[j].verification_status = "inactive"
         /\ ResponseOf(r).businesses[j].companies_house_data[1].company_status = "dissolved"

DocsOf(collection, place_id) ==
  { i \in DOMAIN collection : collection[i].place_id = place_id }

\* C11: after any sequence of cache writes the collection holds exactly one
\* document per place id written and none for the others, the document's
\* fields being those of the last record written for the id; writing a
\* record the collection already holds leaves the number of documents
\* unchanged and moves last_updated forward.
C11_UpsertIdempotent ==
  /\ \A p \in PlaceIds :
       IF store_log.last[p] = None
       THEN DocsOf(db, p) = {}
       ELSE /\ Cardinality(DocsOf(db, p)) = 1
            /\ \A i \in DocsOf(db, p) : db[i].info = store_log.last[p][1]
  /\ \A i \in DOMAIN store_log.before :
       (store_log.outcome = "ok"
          /\ store_log.before[i].info = store_log.info[1])
         => /\ Len(db) = Len(store_log.before)
            /\ db[i].info = store_log.info[1]
            /\ db[i].last_updated > store_log.before[i].last_updated

\* C11 witness: a record was written twice in a row; the collection holds
\* the two documents it held before, the record's with a later last_updated.
C11_Witness ==
  /\ store_log.outcome = "ok"
  /\ Len(store_log.before) = 2
  /\ Len(db) = 2
  /\ \E i \in DOMAIN db :
       /\ store_log.before[i].info = store_log.info[1]
       /\ db[i].info = store_log.info[1]
       /\ db[i].last_updated > store_log.before[i].last_updated

\* a cache write was issued in this step
UpsertIssued == clock' # clock

\* a geospatial query gave the answer recorded in this step
GeoQueryIssued == cached' # cached

\* C12: the unique index on place_id exists when a cache write is issued and
\* the 2dsphere index on location exists when a geospatial query is issued,
\* also in the executions where the index creation of startup failed.
C12_IndexesBeforeUse ==
  [][/\ UpsertIssued => UNIQUE_INDEX \in indexes
     /\ GeoQueryIssued => GEO_INDEX \in indexes']_vars

\* the collection holds the record under its place id
Stored(b) ==
  \E i \in DOMAIN db : db[i].place_id = b.place_id /\ db[i].info = b

\* every document stays in the collection under its place id
NothingDeleted ==
  \A i \in DOMAIN db : i \in DOMAIN db' /\ db'[i].place_id = db[i].place_id

\* C13: when a search is answered, every record it built is in the
\* collection under its place id, unless storage rejected its write; and no
\* step of the service removes a document from the collection.
C13_RecordsReachStorage ==
  /\ [](\A r \in DOMAIN rq :
          Answered(r) =>
            \A i \in DOMAIN rq[r].all_businesses :
              rq[r].all_businesses[i].place_id \notin rq[r].uncached
                => Stored(rq[r].all_businesses[i]))
  /\ [][NothingDeleted]_vars

\* C13 witness: after a search was answered 200, a lookup around the search
\* location returned the record the search had returned and stored.
C13_Witness ==
  \E r \in DOMAIN rq :
    /\ Succeeded(r)
    /\ cached # None
    /\ cached[1].response.status = 200
    /\ cached[1].query.lat = rq[r].coordinates[1].lat
    /\ cached[1].query.lng = rq[r].coordinates[1].lng
    /\ \E i \in DOMAIN ResponseOf(r).businesses :
         /\ Stored(ResponseOf(r).businesses[i])
         /\ \E j \in DOMAIN cached[1].response.businesses :
              cached[1].response.businesses[j].info = ResponseOf(r).businesses[i]

\* C14: a lookup answered 200 returns at most 100 documents of the
\* collection, each within the radius of the query point and matching the
\* business_type and verified_only filters given, in order of non-decreasing
\* distance from the query point.
C14_LookupBoundedFilteredSorted ==
  (cached # None /\ cached[1].response.status = 200) =>
    LET query      == cached[1].query
        businesses == cached[1].response.businesses
    IN  /\ Len(businesses) <= 100
        /\ cached[1].response.total_found = Len(businesses)
        /\ \A i \in DOMAIN businesses :
             /\ \E j \in DOMAIN db : db[j] = businesses[i]
             /\ WithinRadius(businesses[i], query.lng, query.lat, query.radius)
             /\ query.business_type # NoText
                  => businesses[i].info.primary_industry = query.business_type
             /\ query.verified_only
                  => businesses[i].info.verification_status = "verified"
        /\ \A i \in 1..(Len(businesses) - 1) :
             Distance2(businesses[i], query.lng, query.lat)
               <= Distance2(businesses[i + 1], query.lng, query.lat)

\* C14 witness: a lookup without filters whose radius covers all 101
\* documents of the collection returned 100 of them, the nearest first and
\* not in collection order.
C14_Witness ==
  /\ cached # None
  /\ cached[1].response.status = 200
  /\ Len(db) = 101
  /\ \A j \in DOMAIN db :
       WithinRadius(db[j], cached[1].query.lng, cached[1].query.lat,
                    cached[1].query.radius)
  /\ cached[1].query.business_type = NoText
  /\ ~cached[1].query.verified_only
  /\ cached[1].response.total_found = 100
  /\ \E i \in 1..99 :
       cached[1].response.businesses[i].place_id
         > cached[1].response.businesses[i + 1].place_id
  /\ Distance2(cached[1].response.businesses[1], cached[1].query.lng,
               cached[1].query.lat)
       < Distance2(cached[1].response.businesses[100], cached[1].query.lng,
                   cached[1].query.lat)

PageFetched(r) ==
  /\ rq'[r].last_call.page_token
  /\ \/ rq'[r].npages = rq[r].npages + 1
     \/ rq'[r].page_failed # rq[r].page_failed

\* C16: a page fetch is made only when the answer before it carried a
\* continuation token and fewer than max_results records were gathered; it
\* comes after the 2-second delay and is made with the token alone.
C16_PageFetchGuarded ==
  [][\A r \in DOMAIN rq :
       PageFetched(r) =>
         /\ rq[r].places_result.next_page_token
         /\ Len(rq[r].all_businesses) < rq[r].search_request.max_results
         /\ rq'[r].last_call.delay = 2
         /\ rq'[r].last_call.type = ""
         /\ rq'[r].last_call.keyword = <<>>]_vars

\* C16 witness: a second page fetch of a category was made, after the delay
\* and with the token alone, while one record of two allowed was gathered.
C16_Witness ==
  \E r \in DOMAIN rq :
    /\ rq[r].npages = 2
    /\ rq[r].last_call.page_token
    /\ rq[r].last_call.delay = 2
    /\ rq[r].last_call.keyword = <<>>
    /\ Len(rq[r].all_businesses) = 1
    /\ rq[r].search_request.max_results = 2

\* C17: the profile call and the officers call of a matched company are
\* made together, and the match is built from both results: a failed profile
\* call gives no match whatever the officers call did; a failed officers
\* call alone gives a match with no director; and every match carries at most
\* 5 directors, the first 5 officers in the order the registry listed them.
C17_ProfileAndOfficersJoined ==
  \A r \in DOMAIN rq :
    LET s  == rq[r]
        lp == s.last_place
    IN  /\ lp.prof = "not_called" <=> lp.offs = "not_called"
        /\ (lp.details = "ok" /\ lp.prof \in Failures)
             => LastRecord(s).companies_house_data = None
        /\ (lp.details = "ok" /\ lp.prof = "ok" /\ lp.offs \in Failures)
             => /\ LastRecord(s).companies_house_data # None
                /\ LastRecord(s).companies_house_data[1].directors = <<>>
        /\ \A i \in DOMAIN s.all_businesses :
             Matched(s.all_businesses[i]) =>
               LET match    == s.all_businesses[i].companies_house_data[1]
                   officers == RegistryOfficers(match.company_number)
               IN  /\ Len(match.directors) <= 5
                   /\ \A k \in DOMAIN match.directors :
                        match.directors[k] = officers[k]
                   /\ match.directors # <<>>
                        => Len(match.directors) = Min(5, Len(officers))

\* C17 witness: both calls succeeded for a company with six officers and
\* the match carries the first five.
C17_Witness ==
  \E r \in DOMAIN rq :
    /\ rq[r].last_place.prof = "ok"
    /\ rq[r].last_place.offs = "ok"
    /\ Len(RegistryOfficers(LastRecord(rq[r]).companies_house_data[1].company_number)) = 6
    /\ LastRecord(rq[r]).companies_house_data[1].directors = <<1, 2, 3, 4, 5>>

\* the place ids of the records a search gathered
GatheredIds(s) == { s.all_businesses[i].place_id : i \in DOMAIN s.all_businesses }

\* C18: with searches running at once, whatever the order of their steps,
\* the collection holds exactly one document for every place id written,
\* with the fields of the write applied last; and a search skips a place
\* only if it has processed that place itself, so each place a search was
\* offered and fetched details for is in that search's answer up to its cap.
C18_ConcurrentUpsertsLastWriterWins ==
  /\ \A p \in PlaceIds :
       IF store_log.last[p] = None
       THEN DocsOf(db, p) = {}
       ELSE /\ Cardinality(DocsOf(db, p)) = 1
            /\ \A i \in DocsOf(db, p) : db[i].info = store_log.last[p][1]
  /\ \A r \in DOMAIN rq :
       /\ rq[r].skipped \subseteq rq[r].processed_place_ids
       /\ Succeeded(r) =>
            /\ { rq[r].offered[i][2] : i \in DOMAIN rq[r].offered }
                 = rq[r].processed_place_ids
            /\ ResponseOf(r).businesses
                 = Limit(rq[r].all_businesses, rq[r].search_request.max_results)

\* the legal-entity suffixes the claim names, as words
LegalSuffixWords ==
  { <<"l","t","d">>, <<"l","i","m","i","t","e","d">>, <<"p","l","c">>,
    <<"l","l","p">>, <<"c","o","m","p","a","n","y">>, <<"c","o">> }

IsCoreWord(word) == word \notin LegalSuffixWords

\* the words of a name in lower case with its punctuation deleted, the
\* legal-entity suffixes left out
CoreWords(name) == SelectSeq(split(strip(re_sub_punct(lower(name)))), IsCoreWord)

CoreWordsOf == [name \in SimNames |-> CoreWords(name)]

\* C19: the similarity of a name with itself is 1.0, and so is the
\* similarity of two names that differ only in letter case, punctuation and
\* legal-entity suffixes (ltd, limited, plc, llp, company, co).
C19_SuffixInsensitiveIdentity ==
  (matcher.pc = "done"
     /\ \/ matcher.name1 = matcher.name2
        \/ CoreWordsOf[matcher.name1] = CoreWordsOf[matcher.name2])
    => (matcher.similarity[1] = matcher.similarity[2])

\* C20: within one search the details call and the enrichment are each made
\* at most once per place id, every place they were made for being in the
\* set of processed ids; a place whose details call failed is not called
\* for again and is neither among the records gathered nor in the answer,
\* also when a later category or page returns it again.
C20_EachPlaceProcessedOnce ==
  \A r \in DOMAIN rq :
    LET s == rq[r]
    IN  /\ \A p \in PlaceIds :
             /\ s.attempts[p].details <= 1
             /\ s.attempts[p].enrich <= 1
             /\ s.attempts[p].details >= 1 <=> p \in s.processed_place_ids
        /\ \A p \in s.details_failed :
             /\ s.attempts[p].details = 1
             /\ s.attempts[p].enrich = 0
             /\ p \notin GatheredIds(s)
             /\ Answered(r) =>
                  \A i \in DOMAIN ResponseOf(r).businesses :
                    ResponseOf(r).businesses[i].place_id # p

\* C20 witness: the details call of a place failed, a later category
\* returned the place again and it was skipped, and the 200 answer holds
\* another place and not this one.
C20_Witness ==
  \E r \in DOMAIN rq :
    /\ Succeeded(r)
    /\ \E p \in rq[r].details_failed :
         /\ p \in rq[r].skipped
         /\ \E i, j \in DOMAIN rq[r].offered :
              /\ rq[r].offered[i] = <<1, p>>
              /\ rq[r].offered[j] = <<2, p>>
    /\ ResponseOf(r).businesses # <<>>

====
